---------------------------- MODULE Spec2Model ----------------------------
(***************************************************************************)
(* The DownloadMetadata background task of nft_ingester                    *)
(* (src/nft_ingester/src/tasks/common/task.rs).                            *)
(*                                                                         *)
(* A producer holds a DownloadMetadata payload object `dm`, may call       *)
(* sanitize() on it, and serialises it into task data.  One invocation of  *)
(* BgTask::task runs at a time; it is split at its three await points      *)
(* (send, json, exec), each resolved by the environment (the HTTP endpoint *)
(* within the 3 s client timeout, the database).                           *)
(*                                                                         *)
(* Strings are sequences over a four character alphabet: a whitespace      *)
(* character, the null character, a scheme character and the colon.        *)
(***************************************************************************)
EXTENDS Naturals, Sequences, FiniteSets

\* ------------------------------------------------------------------ bounds
\* Longest uri string enumerated.
MaxLen == 3

\* ------------------------------------------------------- program constants
TASK_NAME == "DownloadMetadata"
StatusOK == 200

\* --------------------------------------------------------------- alphabet
SP == "SP"
NUL == "NUL"
Alphabet == {SP, NUL, "a", ":"}
Strings == UNION {[1..n -> Alphabet] : n \in 0..MaxLen}

\* -------------------------------------------------- DownloadMetadata::sanitize
\* char::is_whitespace: the null character is not whitespace.
IsWhitespace(c) == c = SP

RECURSIVE TrimStart(_)
TrimStart(s) ==
    IF s # << >> /\ IsWhitespace(Head(s)) THEN TrimStart(Tail(s)) ELSE s

RECURSIVE TrimEnd(_)
TrimEnd(s) ==
    IF s # << >> /\ IsWhitespace(s[Len(s)])
    THEN TrimEnd(SubSeq(s, 1, Len(s) - 1))
    ELSE s

\* str::trim
trim(s) == TrimEnd(TrimStart(s))

\* str::replace(c, ""): every occurrence of c removed
replace(s, c) == SelectSeq(s, LAMBDA x : x # c)

\* self.uri = self.uri.trim().replace('\0', "")
sanitize(uri) == replace(trim(uri), NUL)

\* ------------------------------------------------------------- Url::parse
\* The URL parser first strips leading and trailing C0 control characters
\* and spaces (the null character is a C0 control), then requires a scheme:
\* one or more scheme characters followed by a colon.
IsC0ControlOrSpace(c) == c \in {SP, NUL}

RECURSIVE StripStart(_)
StripStart(s) ==
    IF s # << >> /\ IsC0ControlOrSpace(Head(s)) THEN StripStart(Tail(s)) ELSE s

RECURSIVE StripEnd(_)
StripEnd(s) ==
    IF s # << >> /\ IsC0ControlOrSpace(s[Len(s)])
    THEN StripEnd(SubSeq(s, 1, Len(s) - 1))
    ELSE s

UrlParse(s) ==
    LET t == StripEnd(StripStart(s))
    IN  IF \E k \in 2..Len(t) :
              /\ t[k] = ":"
              /\ \A i \in 1..(k - 1) : t[i] = "a"
        THEN "Ok"
        ELSE "Err"

\* ---------------------------------------------------------- JSON documents
JsonNull == [t |-> "Null", v |-> "null"]
JsonString(s) == [t |-> "String", v |-> s]
JsonObject(s) == [t |-> "Object", v |-> s]

\* serde_json::Value::String("Invalid Uri".to_string())
InvalidUriBody == JsonString("Invalid Uri")

\* Documents an endpoint may serve (one of them is the JSON string that
\* coincides with the sentinel).
Docs == {JsonObject("x"), JsonString("Invalid Uri")}

\* ------------------------------------------------------------------- store
\* asset_data rows: the primary key, the metadata column and `others`,
\* which stands for every remaining column.
AssetIds == {1, 2}
Existing == {1}
InitOthers(i) == <<"others", i>>
InitStore == [i \in Existing |->
                 [id |-> i, metadata |-> JsonNull, others |-> InitOthers(i)]]

\* ---------------------------------------------------------------- payloads
None == "None"
\* The producer stamps every payload it builds.
Timestamps == {"ts"}
Payloads == [asset_data_id : AssetIds, uri : Strings, created_at : Timestamps]

\* into_task_data: serde_json::to_value(self) skips created_at, which is
\* carried beside the data.
IntoTaskData(p) ==
    [name |-> TASK_NAME,
     data |-> [t |-> "Object", asset_data_id |-> p.asset_data_id, uri |-> p.uri],
     created_at |-> p.created_at]

\* A JSON value that is not a DownloadMetadata object.
Malformed == [t |-> "Null", asset_data_id |-> 0, uri |-> << >>]

Decodes(d) == d.t = "Object"

\* serde_json::from_value: created_at is absent from the data, so None.
FromValue(d) ==
    [asset_data_id |-> d.asset_data_id, uri |-> d.uri, created_at |-> None]

NoPayload == [asset_data_id |-> 0, uri |-> << >>, created_at |-> "Unset"]

\* ------------------------------------------------------------ IngesterError
NoResult == [kind |-> "None", text |-> << >>]
Ok == [kind |-> "Ok", text |-> << >>]
FetchError(msg) == [kind |-> "FetchError", text |-> <<msg>>]
HttpError(msg) == [kind |-> "HttpError", text |-> <<msg>>]
TaskManagerError(msg) == [kind |-> "TaskManagerError", text |-> msg]
UnrecoverableTaskError == [kind |-> "UnrecoverableTaskError", text |-> << >>]

\* `?` on a reqwest::Error (ClientBuilder::build, Response::json) and on a
\* serde_json::Error (from_value): the From conversions into IngesterError.
FromReqwestError(e) == [kind |-> "ReqwestError", text |-> <<e>>]
FromSerdeError(e) == [kind |-> "SerdeError", text |-> <<e>>]

\* ------------------------------------------------------------ environment
\* Client::get(..).send().await: a response with a status, or a transport
\* error; the client timeout turns an endpoint that never answers into one.
NoResponse == [ok |-> FALSE, status |-> 0, err |-> "unset"]
SendResults ==
    {[ok |-> TRUE, status |-> s, err |-> ""] : s \in {StatusOK, 500}}
    \cup {[ok |-> FALSE, status |-> 0, err |-> e] : e \in {"timeout", "connect"}}

\* response.json().await: the parsed document, or a reqwest error (the body
\* is not JSON, or the timeout ran out while reading it).
NoJson == [ok |-> FALSE, val |-> JsonNull, err |-> "unset"]
JsonResults ==
    {[ok |-> TRUE, val |-> d, err |-> ""] : d \in Docs}
    \cup {[ok |-> FALSE, val |-> JsonNull, err |-> e] : e \in {"decode", "timeout"}}

\* exec(db).await: the statement runs and its result comes back ("run"),
\* the connection fails before the statement runs ("conn"), or it fails
\* after the statement ran, before the result came back ("lost").
NoDbRes == [ok |-> FALSE, err |-> "unset"]
DbOutcomes == {"run", "conn", "lost"}

StatusText(s) == IF s = StatusOK THEN "200" ELSE "500"

\* ---------------------------------------------------------------- ActiveModel
\* ActiveValue: NotSet carries the column type's default as a placeholder.
NotSet(x) == [av |-> "NotSet", v |-> x]
Set(x) == [av |-> "Set", v |-> x]
Unchanged(x) == [av |-> "Unchanged", v |-> x]
NoBody == [t |-> "Unset", v |-> ""]
NoOthers == <<"others", 0>>
NoModel ==
    [id |-> NotSet(0), metadata |-> NotSet(NoBody), others |-> NotSet(NoOthers)]

\* A faulty variant: the body is never put into the model.
BuildModel_BodyNotSet(p, b) ==
    [id |-> Unchanged(p.asset_data_id), metadata |-> NotSet(NoBody),
     others |-> NotSet(NoOthers)]

\* asset_data::ActiveModel { id: Unchanged(..), metadata: Set(body),
\*                           ..Default::default() }
BuildModel(p, b) ==
    [id |-> Unchanged(p.asset_data_id), metadata |-> Set(b),
     others |-> NotSet(NoOthers)]

\* The rows an UPDATE of model m with the extra filter Id = f touches.
Hit(st, m, f) == {i \in DOMAIN st : st[i].id = m.id.v /\ st[i].id = f}

\* A faulty variant: an upsert, which inserts the row when none matches.
ApplyUpdate_Upsert(st, m, f) ==
    [i \in DOMAIN st \cup {f} |->
        [id |-> i,
         metadata |-> IF i = f THEN m.metadata.v ELSE st[i].metadata,
         others |-> IF i \in DOMAIN st THEN st[i].others ELSE NoOthers]]

\* UPDATE asset_data SET <the Set columns> WHERE id = <pk> AND id = f
ApplyUpdate(st, m, f) ==
    [i \in DOMAIN st |->
        IF i \in Hit(st, m, f)
        THEN [id |-> st[i].id,
              metadata |-> IF m.metadata.av = "Set"
                           THEN m.metadata.v ELSE st[i].metadata,
              others |-> IF m.others.av = "Set"
                         THEN m.others.v ELSE st[i].others]
        ELSE st[i]]

\* What exec returns: Ok, the connection error, or the updater's error when
\* no row was affected.
ExecResult(st, m, f, o) ==
    IF o # "run" THEN [ok |-> FALSE, err |-> o]
    ELSE IF Hit(st, m, f) = {} THEN [ok |-> FALSE, err |-> "RecordNotUpdated"]
    ELSE [ok |-> TRUE, err |-> ""]

\* .map_err(|db| TaskManagerError(format!("Database error with {}, error: {}",
\*                                        self.name(), db)))
MapDbErr(e) ==
    TaskManagerError(<<"Database error with ", TASK_NAME, ", error: ", e>>)

\* A faulty variant: the meta_url check is forgotten.
TaskResult_NoUnrecoverable(db, mu) ==
    IF ~db.ok THEN MapDbErr(db.err) ELSE Ok

\* A faulty variant: the meta_url check comes before the `?` on the exec result.
TaskResult_UrlFirst(db, mu) ==
    IF mu = "Err" THEN UnrecoverableTaskError
    ELSE IF ~db.ok THEN MapDbErr(db.err)
    ELSE Ok

\* The tail of task(): `?` on the mapped exec result, then the meta_url check.
TaskResult(db, mu) ==
    IF ~db.ok THEN MapDbErr(db.err)
    ELSE IF mu = "Err" THEN UnrecoverableTaskError
    ELSE Ok

\* A faulty variant: the status is not looked at.
RequestMetadataBranch_NoStatusCheck(r) ==
    IF ~r.ok THEN FetchError(r.err) ELSE NoResult

\* request_metadata's branch on the resolved send: a transport error, a
\* status other than OK, or on to reading the body.  The source's second
\* branch names `resp`, `status` and `e`, which it never binds; they are read
\* as the response that was received and its status.
RequestMetadataBranch(r) ==
    IF ~r.ok THEN FetchError(r.err)
    ELSE IF r.status # StatusOK THEN HttpError(StatusText(r.status))
    ELSE NoResult

\* ------------------------------------------------------------------- state
VARIABLES
    dm,                 \* the producer's DownloadMetadata object
    sanitized,          \* sanitize() was the last call on dm
    pc,                 \* "idle", "send", "json", "exec", "done"
    data,               \* the invocation's serde_json::Value argument
    download_metadata,  \* the decoded payload
    meta_url,           \* Url::parse's result: "Ok", "Err", None
    response,           \* the resolved send
    json,               \* the resolved body read
    body,               \* the document chosen for the write
    model,              \* the ActiveModel handed to update
    dbres,              \* the resolved exec
    result,             \* what task() returned
    store,              \* the asset_data table
    store0,             \* the table when the invocation began
    trace               \* the invocation's calls, in order

vars == <<dm, sanitized, pc, data, download_metadata, meta_url, response, json,
          body, model, dbres, result, store, store0, trace>>

inv == <<data, download_metadata, meta_url, response, json, body, model, dbres,
         result, store0, trace>>

\* One call of the invocation: Url::parse or GET with its string, or the
\* update with its model.
Call(op, uri, m) == [op |-> op, uri |-> uri, model |-> m]

Init ==
    /\ dm \in Payloads
    /\ sanitized = FALSE
    /\ pc = "idle"
    /\ data = Malformed
    /\ download_metadata = NoPayload
    /\ meta_url = None
    /\ response = NoResponse
    /\ json = NoJson
    /\ body = NoBody
    /\ model = NoModel
    /\ dbres = NoDbRes
    /\ result = NoResult
    /\ store = InitStore
    /\ store0 = InitStore
    /\ trace = << >>

\* The producer builds the next payload once the invocation has returned.
New(p) ==
    /\ pc = "done"
    /\ dm' = p
    /\ sanitized' = FALSE
    /\ pc' = "idle"
    /\ data' = Malformed
    /\ download_metadata' = NoPayload
    /\ meta_url' = None
    /\ response' = NoResponse
    /\ json' = NoJson
    /\ body' = NoBody
    /\ model' = NoModel
    /\ dbres' = NoDbRes
    /\ result' = NoResult
    /\ store0' = store
    /\ trace' = << >>
    /\ UNCHANGED store

\* DownloadMetadata::sanitize on the producer's object.
Sanitize ==
    /\ pc = "idle"
    /\ dm' = [dm EXCEPT !.uri = sanitize(dm.uri)]
    /\ sanitized' = TRUE
    /\ UNCHANGED <<pc, store>>
    /\ UNCHANGED inv

\* What an invocation starts from, whatever ran before.
Begin(d) ==
    /\ pc \in {"idle", "done"}
    /\ d \in {IntoTaskData(dm).data, Malformed}
    /\ data' = d
    /\ store0' = store
    /\ response' = NoResponse
    /\ json' = NoJson
    /\ dbres' = NoDbRes
    /\ UNCHANGED <<dm, sanitized, store>>

\* task(): from_value fails and `?` returns the converted error.
TaskDecodeError(d) ==
    /\ Begin(d)
    /\ ~Decodes(d)
    /\ download_metadata' = NoPayload
    /\ meta_url' = None
    /\ body' = NoBody
    /\ model' = NoModel
    /\ trace' = << >>
    /\ result' = FromSerdeError("decode")
    /\ pc' = "done"

\* A faulty variant: an invalid uri returns at once, without the write.
TaskInvalidUri_NoWrite(d) ==
    /\ Begin(d)
    /\ Decodes(d)
    /\ UrlParse(FromValue(d).uri) = "Err"
    /\ download_metadata' = FromValue(d)
    /\ meta_url' = "Err"
    /\ body' = InvalidUriBody
    /\ model' = NoModel
    /\ trace' = <<Call("parse", FromValue(d).uri, NoModel)>>
    /\ result' = UnrecoverableTaskError
    /\ pc' = "done"

\* task(): the uri does not parse; the sentinel is chosen and the update is
\* issued.
TaskInvalidUri(d) ==
    /\ Begin(d)
    /\ Decodes(d)
    /\ UrlParse(FromValue(d).uri) = "Err"
    /\ download_metadata' = FromValue(d)
    /\ meta_url' = "Err"
    /\ body' = InvalidUriBody
    /\ model' = BuildModel(FromValue(d), InvalidUriBody)
    /\ trace' = <<Call("parse", FromValue(d).uri, NoModel),
                  Call("update", << >>, BuildModel(FromValue(d), InvalidUriBody))>>
    /\ result' = NoResult
    /\ pc' = "exec"

\* task() -> request_metadata(): the uri parses but the client cannot be
\* built; `?` returns the converted error.
TaskBuildError(d) ==
    /\ Begin(d)
    /\ Decodes(d)
    /\ UrlParse(FromValue(d).uri) = "Ok"
    /\ download_metadata' = FromValue(d)
    /\ meta_url' = "Ok"
    /\ body' = NoBody
    /\ model' = NoModel
    /\ trace' = <<Call("parse", FromValue(d).uri, NoModel)>>
    /\ result' = FromReqwestError("builder")
    /\ pc' = "done"

\* task() -> request_metadata(): the uri parses and the GET is sent.
TaskSend(d) ==
    /\ Begin(d)
    /\ Decodes(d)
    /\ UrlParse(FromValue(d).uri) = "Ok"
    /\ download_metadata' = FromValue(d)
    /\ meta_url' = "Ok"
    /\ body' = NoBody
    /\ model' = NoModel
    /\ trace' = <<Call("parse", FromValue(d).uri, NoModel),
                  Call("GET", FromValue(d).uri, NoModel)>>
    /\ result' = NoResult
    /\ pc' = "send"

\* A faulty variant: a transport error is retried inside the invocation.
SendResolve_Retry(r) ==
    /\ pc = "send"
    /\ response' = r
    /\ IF ~r.ok /\ Len(trace) < 4
       THEN /\ trace' = Append(trace, Call("GET", download_metadata.uri, NoModel))
            /\ UNCHANGED <<result, pc>>
       ELSE /\ result' = RequestMetadataBranch(r)
            /\ pc' = IF RequestMetadataBranch(r) = NoResult THEN "json" ELSE "done"
            /\ UNCHANGED trace
    /\ UNCHANGED <<dm, sanitized, data, download_metadata, meta_url, json, body,
                   model, dbres, store, store0>>

\* send() resolves: a failure returns through `?` in task(), before any
\* write; a 200 goes on to read the body.
SendResolve(r) ==
    /\ pc = "send"
    /\ response' = r
    /\ result' = RequestMetadataBranch(r)
    /\ pc' = IF RequestMetadataBranch(r) = NoResult THEN "json" ELSE "done"
    /\ UNCHANGED <<dm, sanitized, data, download_metadata, meta_url, json, body,
                   model, dbres, store, store0, trace>>

\* A faulty variant: an unreadable body is treated like an invalid uri.
JsonError_WritesSentinel(r) ==
    /\ pc = "json"
    /\ ~r.ok
    /\ json' = r
    /\ body' = InvalidUriBody
    /\ model' = BuildModel(download_metadata, InvalidUriBody)
    /\ trace' = Append(trace,
                       Call("update", << >>, BuildModel(download_metadata, InvalidUriBody)))
    /\ pc' = "exec"
    /\ UNCHANGED <<dm, sanitized, data, download_metadata, meta_url, response,
                   dbres, result, store, store0>>

\* json() fails: `?` in request_metadata, then `?` in task().
JsonError(r) ==
    /\ pc = "json"
    /\ ~r.ok
    /\ json' = r
    /\ result' = FromReqwestError(r.err)
    /\ pc' = "done"
    /\ UNCHANGED <<dm, sanitized, data, download_metadata, meta_url, response,
                   body, model, dbres, store, store0, trace>>

\* json() yields the document: it becomes the body and the update is issued.
JsonOk(r) ==
    /\ pc = "json"
    /\ r.ok
    /\ json' = r
    /\ body' = r.val
    /\ model' = BuildModel(download_metadata, r.val)
    /\ trace' = Append(trace,
                       Call("update", << >>, BuildModel(download_metadata, r.val)))
    /\ pc' = "exec"
    /\ UNCHANGED <<dm, sanitized, data, download_metadata, meta_url, response,
                   dbres, result, store, store0>>

\* exec() resolves: the statement ran (unless the connection failed first)
\* and task() returns.
ExecResolve(o) ==
    /\ pc = "exec"
    /\ store' = IF o = "conn" THEN store
                ELSE ApplyUpdate(store, model, download_metadata.asset_data_id)
    /\ dbres' = ExecResult(store, model, download_metadata.asset_data_id, o)
    /\ result' = TaskResult(
                    ExecResult(store, model, download_metadata.asset_data_id, o),
                    meta_url)
    /\ pc' = "done"
    /\ UNCHANGED <<dm, sanitized, data, download_metadata, meta_url, response,
                   json, body, model, store0, trace>>

Next ==
    \/ \E p \in Payloads : New(p)
    \/ Sanitize
    \/ \E d \in {IntoTaskData(dm).data, Malformed} : TaskDecodeError(d)
    \/ \E d \in {IntoTaskData(dm).data, Malformed} : TaskInvalidUri(d)
    \/ \E d \in {IntoTaskData(dm).data, Malformed} : TaskBuildError(d)
    \/ \E d \in {IntoTaskData(dm).data, Malformed} : TaskSend(d)
    \/ \E r \in SendResults : SendResolve(r)
    \/ \E r \in JsonResults : JsonError(r)
    \/ \E r \in JsonResults : JsonOk(r)
    \/ \E o \in DbOutcomes : ExecResolve(o)

Spec == Init /\ [][Next]_vars

\* The awaited operations resolve: the client timeout bounds send and json,
\* the database answers or its connection fails.
FairSpec ==
    /\ Spec
    /\ WF_vars(\E r \in SendResults : SendResolve(r))
    /\ WF_vars(\E r \in JsonResults : JsonError(r))
    /\ WF_vars(\E r \in JsonResults : JsonOk(r))
    /\ WF_vars(\E o \in DbOutcomes : ExecResolve(o))

\* ------------------------------------------------------------ vocabulary
Done == pc = "done"
Running == pc \in {"send", "json", "exec"}
Decoded == download_metadata # NoPayload
Id == download_metadata.asset_data_id
Gets == SelectSeq(trace, LAMBDA c : c.op = "GET")
Updates == SelectSeq(trace, LAMBDA c : c.op = "update")
FetchFailed ==
    /\ response # NoResponse
    /\ ~response.ok \/ response.status # StatusOK

\* ------------------------------------------------------------------ C1
\* C1 as claimed: when the payload's uri fails to parse and its record
\* exists, the invocation ends with the sentinel in the record and
\* UnrecoverableTaskError as its result, whatever the store answers.
C1_InvalidUriAlwaysUnrecoverable ==
    (Done /\ Decoded /\ meta_url = "Err" /\ Id \in DOMAIN store0)
        => /\ result = UnrecoverableTaskError
           /\ store[Id].metadata = InvalidUriBody

\* C1 amended: when the payload's uri fails to parse, the invocation sends no
\* request and issues exactly one update, carrying the sentinel "Invalid Uri"
\* for the payload's id; when that update succeeds the record holds the
\* sentinel and the result is UnrecoverableTaskError; when it fails the
\* result is TaskManagerError.
C1_InvalidUriTerminal ==
    (Done /\ Decoded /\ meta_url = "Err")
        => /\ Gets = << >>
           /\ Len(Updates) = 1
           /\ Updates[1].model.id.v = Id
           /\ Updates[1].model.metadata = Set(JsonString("Invalid Uri"))
           /\ dbres.ok => /\ result = UnrecoverableTaskError
                          /\ Id \in DOMAIN store
                          /\ store[Id].metadata = JsonString("Invalid Uri")
           /\ ~dbres.ok => result.kind = "TaskManagerError"

C1_Witness ==
    /\ Done
    /\ meta_url = "Err"
    /\ result = UnrecoverableTaskError
    /\ store0[1].metadata = JsonObject("x")
    /\ store[1].metadata = JsonString("Invalid Uri")

\* ------------------------------------------------------------------ C2
\* C2: a valid uri, a 200 response with a parseable body D and a successful
\* store write end with D in the metadata of the record of the payload's id
\* and the result Ok; and the result is Ok only with the fetched document in
\* that record.
C2_SuccessRoundTrip ==
    Done =>
        /\ (meta_url = "Ok" /\ response.ok /\ response.status = StatusOK
               /\ json.ok /\ dbres.ok)
              => /\ result = Ok
                 /\ Id \in DOMAIN store
                 /\ store[Id].metadata = json.val
        /\ result = Ok
              => /\ meta_url = "Ok" /\ response.ok /\ response.status = StatusOK
                 /\ json.ok
                 /\ Id \in DOMAIN store
                 /\ store[Id].metadata = json.val

C2_Witness ==
    /\ Done
    /\ result = Ok
    /\ json.val = JsonObject("x")
    /\ store0[1].metadata # JsonObject("x")
    /\ store[1].metadata = JsonObject("x")

\* ------------------------------------------------------------------ C3
\* C3: a valid uri whose fetch fails by a transport error or by a status
\* other than 200 ends with FetchError, respectively HttpError (neither Ok
\* nor UnrecoverableTaskError), with no update issued and the store as it
\* was when the invocation began.
C3_FetchFailureNoWrite ==
    (Done /\ meta_url = "Ok" /\ FetchFailed)
        => /\ ~response.ok => result.kind = "FetchError"
           /\ response.ok => result.kind = "HttpError"
           /\ result.kind \notin {"Ok", "UnrecoverableTaskError"}
           /\ Updates = << >>
           /\ dbres = NoDbRes
           /\ store = store0

C3_Witness ==
    /\ Done
    /\ response.ok
    /\ response.status = 500
    /\ store0[1].metadata = JsonObject("x")

\* ------------------------------------------------------------------ C4
\* C4 as claimed: what sanitize leaves in uri is a fixed point of sanitize,
\* holds no null character and neither starts nor ends with whitespace.
C4_SanitizeIdempotent ==
    sanitized =>
        /\ sanitize(dm.uri) = dm.uri
        /\ \A i \in 1..Len(dm.uri) : dm.uri[i] # NUL
        /\ dm.uri # << >> =>
              /\ ~IsWhitespace(dm.uri[1])
              /\ ~IsWhitespace(dm.uri[Len(dm.uri)])

\* ------------------------------------------------------------------ C5
\* C5 as claimed: every string an invocation hands to Url::parse or to the
\* GET request is the sanitized uri of its payload.
C5_SanitizedBeforeUse ==
    \A i \in 1..Len(trace) :
        trace[i].op \in {"parse", "GET"} => trace[i].uri = sanitize(data.uri)

\* ------------------------------------------------------------------ C6
\* C6 as claimed, on the invocations that got an answer to their request:
\* whatever the result, an update was issued.
C6_WriteAlwaysAttempted ==
    (Done /\ Decoded /\ response # NoResponse) => Updates # << >>

\* C6 amended: an update is issued exactly by the invocations whose payload
\* decodes and whose uri is invalid or whose fetch returned a parsed
\* document, whatever the store then answers; an invocation that ends with
\* a decode, client, transport, status or body error issues none.
C6_WriteAttemptedUnlessFetchFails ==
    Done =>
        /\ Len(Updates) \in {0, 1}
        /\ Len(Updates) = 1 <=> (Decoded /\ (meta_url = "Err" \/ json.ok))
        /\ Len(Updates) = 1 <=> dbres # NoDbRes
        /\ Updates = << >>
              <=> result.kind \in {"SerdeError", "ReqwestError",
                                   "FetchError", "HttpError"}

C6_Witness ==
    /\ Done
    /\ meta_url = "Err"
    /\ Len(Updates) = 1
    /\ dbres.err = "lost"

\* ------------------------------------------------------------------ C7
\* C7: whenever the update fails, after a fetched document or after the
\* sentinel, the result is the TaskManagerError that carries the task name
\* "DownloadMetadata" and the cause; never UnrecoverableTaskError, never Ok.
C7_StoreFailureRetryable ==
    (Done /\ dbres # NoDbRes /\ ~dbres.ok)
        => /\ result.kind = "TaskManagerError"
           /\ result.text = <<"Database error with ", "DownloadMetadata",
                              ", error: ", dbres.err>>

C7_Witness ==
    /\ Done
    /\ meta_url = "Err"
    /\ dbres.err = "conn"
    /\ result.kind = "TaskManagerError"

\* ------------------------------------------------------------------ C8
C8_Safety ==
    /\ Len(Gets) <= 1
    /\ Len(Updates) <= 1
    /\ \A i, j \in 1..Len(trace) :
          (trace[i].op = "GET" /\ trace[j].op = "update") => i < j
    /\ Done <=> result # NoResult
    /\ Done => result.kind \in {"Ok", "UnrecoverableTaskError", "TaskManagerError",
                                "FetchError", "HttpError", "ReqwestError",
                                "SerdeError"}

\* C8: an invocation is a single pass: at most one GET, at most one update,
\* the update after the GET, a result exactly when it has ended; and every
\* invocation that is waiting on the endpoint or the store ends.
C8_SinglePass == [](C8_Safety) /\ (Running ~> Done)

C8_Witness ==
    /\ Done
    /\ response.err = "timeout"
    /\ result.kind = "FetchError"
    /\ Len(Gets) = 1

\* ------------------------------------------------------------------ C9
\* C9: the store always holds the records it began with; an invocation
\* changes at most the metadata of the record of its payload's id.
C9_Frame ==
    /\ DOMAIN store = Existing
    /\ DOMAIN store0 = Existing
    /\ \A i \in DOMAIN store :
          /\ store[i].id = i
          /\ store[i].others = InitOthers(i)
          /\ store[i] # store0[i] => (Decoded /\ i = Id)

C9_Witness ==
    /\ Done
    /\ Id = 2
    /\ Len(Updates) = 1
    /\ dbres.err = "RecordNotUpdated"

\* ------------------------------------------------------------------ C10
\* C10: a valid uri and a 200 response whose body does not parse end with
\* an error that is neither Ok nor UnrecoverableTaskError, with no update
\* issued and the store as it was.
C10_BodyDecodeFailure ==
    (Done /\ meta_url = "Ok" /\ response.ok /\ response.status = StatusOK
          /\ json # NoJson /\ ~json.ok)
        => /\ result.kind \notin {"None", "Ok", "UnrecoverableTaskError"}
           /\ Updates = << >>
           /\ dbres = NoDbRes
           /\ store = store0

C10_Witness ==
    /\ Done
    /\ response.status = StatusOK
    /\ json.err = "decode"
    /\ store0[1].metadata = JsonObject("x")
    /\ store[1].metadata = JsonObject("x")

=============================================================================
